---------------------------- MODULE Spec2Model ----------------------------
(***************************************************************************)
(* Model of scripts/extract_candidates.py: the extraction of election      *)
(* candidates (name, statement, headshot) from an .xlsx package.           *)
(*                                                                         *)
(* A text is a sequence of one-character strings.  An optional value       *)
(* (Python's None, an absent XML attribute or element, an absent package   *)
(* member) is the empty sequence; a present value x is <<x>>.              *)
(***************************************************************************)
EXTENDS Integers, Sequences, FiniteSets, TLC

None == << >>
Some(x) == <<x>>
Get(o) == o[1]

Last(s) == s[Len(s)]
Range(s) == {s[i] : i \in 1..Len(s)}

(***************************************************************************)
(* Characters                                                              *)
(***************************************************************************)
UpperChars == <<"A", "B", "C", "D", "E", "F", "G", "H", "I", "J", "K", "L", "M",
                "N", "O", "P", "Q", "R", "S", "T", "U", "V", "W", "X", "Y", "Z">>
LowerChars == <<"a", "b", "c", "d", "e", "f", "g", "h", "i", "j", "k", "l", "m",
                "n", "o", "p", "q", "r", "s", "t", "u", "v", "w", "x", "y", "z">>
DigitChars == <<"0", "1", "2", "3", "4", "5", "6", "7", "8", "9">>

\* The characters str.strip() removes.
Whitespace == {" ", "\t", "\n", "\r"}

\* str.lower() on one character.
LowerChar(c) ==
    IF c \in Range(UpperChars)
    THEN LowerChars[CHOOSE i \in 1..Len(UpperChars) : UpperChars[i] = c]
    ELSE c

\* The character class [a-z0-9] of slugify's pattern.
IsSlugChar(c) == c \in Range(LowerChars) \cup Range(DigitChars)

(***************************************************************************)
(* Text functions                                                          *)
(***************************************************************************)
RECURSIVE LStrip(_, _)
LStrip(t, chars) ==
    IF t # << >> /\ Head(t) \in chars THEN LStrip(Tail(t), chars) ELSE t

RECURSIVE RStrip(_, _)
RStrip(t, chars) ==
    IF t # << >> /\ Last(t) \in chars
    THEN RStrip(SubSeq(t, 1, Len(t) - 1), chars)
    ELSE t

\* str.strip(): leading and trailing whitespace removed.
Strip(t) == RStrip(LStrip(t, Whitespace), Whitespace)

\* str.replace("\t", " ")
ReplaceTabs(t) == [i \in 1..Len(t) |-> IF t[i] = "\t" THEN " " ELSE t[i]]

\* re.sub(r"[^a-z0-9]+", "-", text): every maximal run of characters outside
\* [a-z0-9] becomes one "-".
RECURSIVE SubNonSlugRuns(_)
SubNonSlugRuns(t) ==
    IF t = << >> THEN << >>
    ELSE IF IsSlugChar(Head(t)) THEN <<Head(t)>> \o SubNonSlugRuns(Tail(t))
    ELSE <<"-">> \o SubNonSlugRuns(LStrip(t, {c \in Range(t) : ~IsSlugChar(c)}))

\* re.sub(r"-+", "-", text)
RECURSIVE CollapseDashes(_)
CollapseDashes(t) ==
    IF t = << >> THEN << >>
    ELSE IF Head(t) = "-" THEN <<"-">> \o CollapseDashes(LStrip(t, {"-"}))
    ELSE <<Head(t)>> \o CollapseDashes(Tail(t))

slugify(text) ==
    LET lowered == [i \in 1..Len(text) |-> LowerChar(text[i])]
    IN  LET t == CollapseDashes(SubNonSlugRuns(lowered))
        IN  RStrip(LStrip(t, {"-"}), {"-"})

\* The decimal text of an integer, as an f-string formats it.
RECURSIVE NatText(_)
NatText(n) ==
    IF n < 10 THEN <<DigitChars[n + 1]>>
    ELSE NatText(n \div 10) \o <<DigitChars[(n % 10) + 1]>>

IntText(n) == IF n < 0 THEN <<"-">> \o NatText(0 - n) ELSE NatText(n)

DigitValue(c) == (CHOOSE i \in 1..10 : DigitChars[i] = c) - 1

RECURSIVE NatValue(_)
NatValue(t) ==
    IF Len(t) = 1 THEN DigitValue(t[1])
    ELSE 10 * NatValue(SubSeq(t, 1, Len(t) - 1)) + DigitValue(Last(t))

IsDigits(t) == t # << >> /\ \A i \in 1..Len(t) : t[i] \in Range(DigitChars)

\* int(text): surrounding whitespace is ignored, a sign may lead the digits;
\* None stands for the ValueError any other text raises.
ParseInt(text) ==
    LET t == Strip(text)
    IN  IF IsDigits(t) THEN Some(NatValue(t))
        ELSE IF t # << >> /\ Head(t) = "-" /\ IsDigits(Tail(t))
             THEN Some(0 - NatValue(Tail(t)))
        ELSE IF t # << >> /\ Head(t) = "+" /\ IsDigits(Tail(t))
             THEN Some(NatValue(Tail(t)))
        ELSE None

RECURSIVE Flatten(_)
Flatten(ss) == IF ss = << >> THEN << >> ELSE Head(ss) \o Flatten(Tail(ss))


(***************************************************************************)
(* Program constants                                                       *)
(***************************************************************************)
\* POSITION_NAME_OVERRIDES: sheet names Excel truncated to 31 characters.
OverrideKey1 ==
    <<"V", "i", "c", "e", " ", "P", "r", "e", "s", "i", "d", "e", "n", "t", " ", "o", "f", " ", "I", "n", "t", "e", "r", "n", "a", "l", " ", "A", "f", "f", "a">>
OverrideValue1 ==
    <<"V", "i", "c", "e", " ", "P", "r", "e", "s", "i", "d", "e", "n", "t", " ", "o", "f", " ", "I", "n", "t", "e", "r", "n", "a", "l", " ", "A", "f", "f", "a", "i", "r", "s">>
OverrideKey2 ==
    <<"I", "n", "t", "e", "r", "n", "a", "t", "i", "o", "n", "a", "l", " ", "S", "t", "u", "d", "e", "n", "t", " ", "A", "f", "f", "a", "i", "r", "s", " ", "O">>
OverrideValue2 ==
    <<"I", "n", "t", "e", "r", "n", "a", "t", "i", "o", "n", "a", "l", " ", "S", "t", "u", "d", "e", "n", "t", " ", "A", "f", "f", "a", "i", "r", "s", " ", "O", "f", "f", "i", "c", "e", "r">>

\* POSITION_NAME_OVERRIDES.get(sheet_name, sheet_name)
POSITION_NAME_OVERRIDES(sheet_name) ==
    IF sheet_name = OverrideKey1 THEN OverrideValue1
    ELSE IF sheet_name = OverrideKey2 THEN OverrideValue2
    ELSE sheet_name

\* HEADSHOT_DIR relative to ROOT, as one path token.
HEADSHOT_DIR == <<"assets/headshots/">>

\* The relationship file of a part: <dir>/_rels/<name>.rels
RelsPathOf(part_path) == <<"_rels", part_path>>

\* xl/_rels/workbook.xml.rels
WorkbookRelsPath == RelsPathOf("xl/workbook.xml")


(***************************************************************************)
(* The package (the zip container), the program's input.                   *)
(*                                                                         *)
(*   exists    whether XLSX_PATH exists                                    *)
(*   sst       xl/sharedStrings.xml: optional sequence of <si> entries,    *)
(*             each the sequence of its <t> text runs                      *)
(*   wbRels    xl/_rels/workbook.xml.rels: optional function Id -> Target  *)
(*   workbook  the <sheet> elements of xl/workbook.xml: [name, rid]        *)
(*   parts     sheet path -> optional sheet part                           *)
(*             [rows : sequence of [r : optional integer,                  *)
(*                                  cells : sequence of [col, t, v]],      *)
(*              rels : optional sequence of [type, target]]                *)
(*   drawings  drawing path -> optional drawing part                       *)
(*             [rels : optional function Id -> image path,                 *)
(*              anchors : sequence of [from, pic, blip, embed]]            *)
(*   media     image path -> optional bytes                                *)
(* Relationship targets are held already joined and normalised.  An image  *)
(* path is a record [stem, suffix].                                        *)
(***************************************************************************)
EmptyMap == [k \in {} |-> << >>]

\* dict[key] = value
Put(map, key, value) ==
    [k \in DOMAIN map \cup {key} |-> IF k = key THEN value ELSE map[k]]

\* dict.get(key)
Lookup(map, key) == IF key \in DOMAIN map THEN Some(map[key]) ELSE None

NoError == [exc |-> "", arg |-> << >>]
KeyError(member) == [exc |-> "KeyError", arg |-> member]
IndexError == [exc |-> "IndexError", arg |-> <<"list index out of range">>]
ValueError == [exc |-> "ValueError", arg |-> <<"invalid literal for int()">>]

\* load_shared_strings: each entry is the concatenation of its text runs.
load_shared_strings(package) ==
    IF package.sst = None THEN << >>
    ELSE [i \in 1..Len(Get(package.sst)) |-> Flatten(Get(package.sst)[i])]

\* The sheets load_sheet_targets keeps: those whose relationship id resolves.
RECURSIVE ResolveSheets(_, _)
ResolveSheets(sheets, rel_map) ==
    IF sheets = << >> THEN << >>
    ELSE LET sheet == Head(sheets)
             target == Lookup(rel_map, sheet.rid)
         IN  IF target = None
             THEN ResolveSheets(Tail(sheets), rel_map)
             ELSE <<[name |-> sheet.name, path |-> Get(target)]>>
                  \o ResolveSheets(Tail(sheets), rel_map)

\* load_sheet_targets: [error, sheets].
load_sheet_targets(package) ==
    IF package.wbRels = None
    THEN [error |-> KeyError(WorkbookRelsPath), sheets |-> << >>]
    ELSE [error |-> NoError,
          sheets |-> ResolveSheets(package.workbook, Get(package.wbRels))]

\* shared_strings[index], a Python list subscript: [ok, text].
ListItem(list, index) ==
    IF 0 <= index /\ index < Len(list)
    THEN [ok |-> TRUE, text |-> list[index + 1]]
    ELSE IF index < 0 /\ 0 - index <= Len(list)
    THEN [ok |-> TRUE, text |-> list[Len(list) + index + 1]]
    ELSE [ok |-> FALSE, text |-> << >>]

\* The cells of one row, read in document order: [error, cells], cells a
\* function from column letters to texts.
RECURSIVE ReadCells(_, _, _)
ReadCells(cs, shared_strings, cells) ==
    IF cs = << >> THEN [error |-> NoError, cells |-> cells]
    ELSE LET cell == Head(cs)
         IN  IF cell.v = None \/ cell.col = ""
             THEN ReadCells(Tail(cs), shared_strings, cells)
             ELSE IF cell.t # "s"
             THEN ReadCells(Tail(cs), shared_strings, Put(cells, cell.col, Get(cell.v)))
             ELSE LET index == ParseInt(Get(cell.v))
                  IN  IF index = None
                      THEN [error |-> ValueError, cells |-> cells]
                      ELSE LET item == ListItem(shared_strings, Get(index))
                           IN  IF ~item.ok
                               THEN [error |-> IndexError, cells |-> cells]
                               ELSE ReadCells(Tail(cs), shared_strings,
                                              Put(cells, cell.col, item.text))

\* int(row.attrib.get("r", "0"))
RowIndex(row) == IF row.r = None THEN 0 ELSE Get(row.r)

RECURSIVE ReadRows(_, _)
ReadRows(rs, shared_strings) ==
    IF rs = << >> THEN [error |-> NoError, rows |-> << >>]
    ELSE LET read == ReadCells(Head(rs).cells, shared_strings, EmptyMap)
         IN  IF read.error # NoError
             THEN [error |-> read.error, rows |-> << >>]
             ELSE LET rest == ReadRows(Tail(rs), shared_strings)
                  IN  IF rest.error # NoError
                      THEN rest
                      ELSE [error |-> NoError,
                            rows |-> <<[idx |-> RowIndex(Head(rs)), cells |-> read.cells]>>
                                     \o rest.rows]

RECURSIVE InsertByIndex(_, _)
InsertByIndex(sorted, row) ==
    IF sorted = << >> THEN <<row>>
    ELSE IF row.idx < Head(sorted).idx THEN <<row>> \o sorted
    ELSE <<Head(sorted)>> \o InsertByIndex(Tail(sorted), row)

RECURSIVE SortByIndex(_)
SortByIndex(rs) ==
    IF rs = << >> THEN << >>
    ELSE InsertByIndex(SortByIndex(SubSeq(rs, 1, Len(rs) - 1)), Last(rs))

\* read_sheet_rows returning the rows sorted by row index.
read_sheet_rows_Sorted(package, sheet_path, shared_strings) ==
    IF package.parts[sheet_path] = None
    THEN [error |-> KeyError(<<sheet_path>>), rows |-> << >>]
    ELSE LET read == ReadRows(Get(package.parts[sheet_path]).rows, shared_strings)
         IN  [error |-> read.error, rows |-> SortByIndex(read.rows)]

\* read_sheet_rows: [error, rows], rows in document order.
read_sheet_rows(package, sheet_path, shared_strings) ==
    IF package.parts[sheet_path] = None
    THEN [error |-> KeyError(<<sheet_path>>), rows |-> << >>]
    ELSE ReadRows(Get(package.parts[sheet_path]).rows, shared_strings)

RECURSIVE FirstDrawing(_)
FirstDrawing(rels) ==
    IF rels = << >> THEN None
    ELSE IF Head(rels).type = "drawing" THEN Some(Head(rels).target)
    ELSE FirstDrawing(Tail(rels))

\* find_drawing_path: the target of the sheet's first drawing relationship.
find_drawing_path(package, sheet_path) ==
    IF package.parts[sheet_path] = None THEN None
    ELSE LET part == Get(package.parts[sheet_path])
         IN  IF part.rels = None THEN None ELSE FirstDrawing(Get(part.rels))

\* (cells.get(col) or "")
CellText(cells, col) == IF col \in DOMAIN cells THEN cells[col] ELSE << >>

\* CandidateName without the strip().
CandidateName_NoStrip(cells) == CellText(cells, "A")

\* name = (cells.get("A") or "").strip()
CandidateName(cells) == Strip(CellText(cells, "A"))

\* CandidateStatement without the replace("\t", " ").
CandidateStatement_KeepTabs(cells) == Strip(CellText(cells, "C"))

\* statement = (cells.get("C") or "").replace("\t", " ").strip()
CandidateStatement(cells) == Strip(ReplaceTabs(CellText(cells, "C")))

\* MapAnchor with the row taken as the anchor declares it, without the + 1.
MapAnchor_NoOffset(anchors, rel_map, anchor) ==
    IF anchor.from = None \/ ~anchor.pic THEN anchors
    ELSE IF ~anchor.blip THEN anchors
    ELSE IF anchor.embed = None THEN anchors
    ELSE LET image_path == Lookup(rel_map, Get(anchor.embed))
         IN  IF image_path = None THEN anchors
             ELSE Put(anchors, Get(anchor.from), Get(image_path))

\* MapAnchor keeping the first image of a row.
MapAnchor_FirstWins(anchors, rel_map, anchor) ==
    IF anchor.from = None \/ ~anchor.pic THEN anchors
    ELSE IF ~anchor.blip THEN anchors
    ELSE IF anchor.embed = None THEN anchors
    ELSE LET image_path == Lookup(rel_map, Get(anchor.embed))
         IN  IF image_path = None \/ (Get(anchor.from) + 1) \in DOMAIN anchors
             THEN anchors
             ELSE Put(anchors, Get(anchor.from) + 1, Get(image_path))

\* One anchor of the drawing applied to the anchors dict.
MapAnchor(anchors, rel_map, anchor) ==
    IF anchor.from = None \/ ~anchor.pic THEN anchors
    ELSE IF ~anchor.blip THEN anchors
    ELSE IF anchor.embed = None THEN anchors
    ELSE LET image_path == Lookup(rel_map, Get(anchor.embed))
         IN  IF image_path = None THEN anchors
             ELSE Put(anchors, Get(anchor.from) + 1, Get(image_path))

\* Path(zip_image_path).suffix or ".jpg"
Extension(image_path) ==
    IF image_path.suffix = "" THEN ".jpg" ELSE image_path.suffix

\* f"{slugify(display_name)}-{slugify(name) or f'row-{row_idx}'}"
FileStem(display_name, name, row_idx) ==
    slugify(display_name) \o <<"-">> \o
    (IF slugify(name) # << >> THEN slugify(name)
     ELSE <<"r", "o", "w", "-">> \o IntText(row_idx))

\* ensure_headshot_path(...).relative_to(ROOT)
ensure_headshot_path(base, ext) == HEADSHOT_DIR \o base \o <<ext>>

\* json.dumps of a string: quoted, with the control characters, the quote
\* and the backslash escaped.
JsonChar(c) ==
    IF c = "\"" THEN <<"\\", "\"">>
    ELSE IF c = "\\" THEN <<"\\", "\\">>
    ELSE IF c = "\t" THEN <<"\\", "t">>
    ELSE IF c = "\n" THEN <<"\\", "n">>
    ELSE IF c = "\r" THEN <<"\\", "r">>
    ELSE <<c>>

JsonString(t) == <<"\"">> \o Flatten([i \in 1..Len(t) |-> JsonChar(t[i])]) \o <<"\"">>

JsonCandidate(c) ==
    [name |-> JsonString(c.name),
     statement |-> JsonString(c.statement),
     headshot |-> IF c.headshot = None THEN <<"null">> ELSE JsonString(Get(c.headshot))]

JsonPosition(p) ==
    [title |-> JsonString(p.title),
     slug |-> JsonString(p.slug),
     sheet |-> JsonString(p.sheet),
     candidates |-> [i \in 1..Len(p.candidates) |-> JsonCandidate(p.candidates[i])]]

\* json.dumps({"positions": positions}, indent=2)
JsonDump(ps) == [positions |-> [i \in 1..Len(ps) |-> JsonPosition(ps[i])]]


(***************************************************************************)
(* The state of one run of main()                                          *)
(***************************************************************************)
VARIABLES
    pkg,             \* the package at XLSX_PATH (never written)
    pc,              \* where main() is
    zip_open,        \* the ZipFile of the with statement is open
    shared_strings,
    sheet_targets,
    si,              \* position of the sheet loop in sheet_targets
    drawing_path,
    rel_map,         \* map_anchor_rows_to_images: the drawing's relationships
    ai,              \* position of the anchor loop in the drawing
    row_image_map,   \* the anchors dict while it is built, row_image_map after
    rows,
    ri,              \* position of the row loop in rows
    candidates,
    positions,
    files,           \* HEADSHOT_DIR: output path -> bytes
    written,         \* history: the write_bytes calls, [path, image, sheet, row]
    data_file,       \* DATA_PATH: optional content
    error            \* the exception that ended the run

vars == <<pkg, pc, zip_open, shared_strings, sheet_targets, si, drawing_path,
          rel_map, ai, row_image_map, rows, ri, candidates, positions, files,
          written, data_file, error>>

sheet_name == sheet_targets[si].name
sheet_path == sheet_targets[si].path
display_name == POSITION_NAME_OVERRIDES(sheet_name)

\* Raise without the with statement: the package stays open.
Raise_LeavesOpen(e) ==
    /\ error' = e
    /\ zip_open' = zip_open
    /\ pc' = "failed"

\* An exception leaves main(): the with statement closes the package on the
\* way out, and DATA_PATH.write_text is never reached.
Raise(e) ==
    /\ error' = e
    /\ zip_open' = FALSE
    /\ pc' = "failed"

\* main, lines 147-149: no spreadsheet, return 1.
MissingSpreadsheet ==
    /\ pc = "start"
    /\ ~pkg.exists
    /\ pc' = "missing"
    /\ UNCHANGED <<pkg, zip_open, shared_strings, sheet_targets, si, drawing_path,
                   rel_map, ai, row_image_map, rows, ri, candidates, positions,
                   files, written, data_file, error>>

\* main, lines 151-155: open the package and load the shared strings.
OpenPackage ==
    /\ pc = "start"
    /\ pkg.exists
    /\ zip_open' = TRUE
    /\ shared_strings' = load_shared_strings(pkg)
    /\ pc' = "load_sheet_targets"
    /\ UNCHANGED <<pkg, sheet_targets, si, drawing_path, rel_map, ai,
                   row_image_map, rows, ri, candidates, positions, files,
                   written, data_file, error>>

\* main, lines 156-158
LoadSheetTargets ==
    /\ pc = "load_sheet_targets"
    /\ LET loaded == load_sheet_targets(pkg)
       IN  IF loaded.error # NoError
           THEN /\ Raise(loaded.error)
                /\ UNCHANGED <<sheet_targets, si>>
           ELSE /\ sheet_targets' = loaded.sheets
                /\ si' = 1
                /\ pc' = "sheet"
                /\ UNCHANGED <<zip_open, error>>
    /\ UNCHANGED <<pkg, shared_strings, drawing_path, rel_map, ai, row_image_map,
                   rows, ri, candidates, positions, files, written, data_file>>

\* main, lines 159-162: the next sheet; its drawing, if it has one.
FindDrawingPath ==
    /\ pc = "sheet"
    /\ si <= Len(sheet_targets)
    /\ drawing_path' = find_drawing_path(pkg, sheet_path)
    /\ row_image_map' = EmptyMap
    /\ pc' = IF drawing_path' = None THEN "read_rows" ELSE "drawing_rels"
    /\ UNCHANGED <<pkg, zip_open, shared_strings, sheet_targets, si, rel_map, ai,
                   rows, ri, candidates, positions, files, written, data_file,
                   error>>

\* map_anchor_rows_to_images, lines 111-123: the drawing's relationship file
\* is read without a membership test.
LoadDrawingRels ==
    /\ pc = "drawing_rels"
    /\ LET path == Get(drawing_path)
           drawing == pkg.drawings[path]
       IN  IF drawing = None \/ Get(drawing).rels = None
           THEN /\ Raise(KeyError(RelsPathOf(path)))
                /\ UNCHANGED <<rel_map, ai>>
           ELSE /\ rel_map' = Get(Get(drawing).rels)
                /\ ai' = 1
                /\ pc' = IF Get(drawing).anchors = << >> THEN "read_rows" ELSE "anchor"
                /\ UNCHANGED <<zip_open, error>>
    /\ UNCHANGED <<pkg, shared_strings, sheet_targets, si, drawing_path,
                   row_image_map, rows, ri, candidates, positions, files, written,
                   data_file>>

\* map_anchor_rows_to_images, lines 124-139: one turn of the anchor loop.
MapAnchorStep ==
    /\ pc = "anchor"
    /\ LET anchor_list == Get(pkg.drawings[Get(drawing_path)]).anchors
       IN  /\ row_image_map' = MapAnchor(row_image_map, rel_map, anchor_list[ai])
           /\ ai' = ai + 1
           /\ pc' = IF ai = Len(anchor_list) THEN "read_rows" ELSE "anchor"
    /\ UNCHANGED <<pkg, zip_open, shared_strings, sheet_targets, si, drawing_path,
                   rel_map, rows, ri, candidates, positions, files, written,
                   data_file, error>>

\* main, lines 164-170: read the rows; a sheet without rows is skipped.
ReadSheetRows ==
    /\ pc = "read_rows"
    /\ LET read == read_sheet_rows(pkg, sheet_path, shared_strings)
       IN  IF read.error # NoError
           THEN /\ Raise(read.error)
                /\ UNCHANGED <<rows, ri, candidates, si>>
           ELSE /\ rows' = read.rows
                /\ IF read.rows = << >>
                   THEN /\ si' = si + 1
                        /\ pc' = "sheet"
                        /\ UNCHANGED <<ri, candidates>>
                   ELSE /\ ri' = 2
                        /\ candidates' = << >>
                        /\ pc' = "row"
                        /\ UNCHANGED si
                /\ UNCHANGED <<zip_open, error>>
    /\ UNCHANGED <<pkg, shared_strings, sheet_targets, drawing_path, rel_map, ai,
                   row_image_map, positions, files, written, data_file>>

\* main, lines 171-197: one turn of the row loop.
BuildCandidate ==
    /\ pc = "row"
    /\ ri <= Len(rows)
    /\ LET row_idx == rows[ri].idx
           cells == rows[ri].cells
           name == CandidateName(cells)
           statement == CandidateStatement(cells)
           headshot_rel == Lookup(row_image_map, row_idx)
       IN  IF name = << >>
           THEN /\ ri' = ri + 1
                /\ UNCHANGED <<pc, zip_open, error, candidates, files, written>>
           ELSE IF headshot_rel = None
           THEN /\ candidates' = Append(candidates,
                        [name |-> name, statement |-> statement, headshot |-> None])
                /\ ri' = ri + 1
                /\ UNCHANGED <<pc, zip_open, error, files, written>>
           ELSE LET zip_image_path == Get(headshot_rel)
                    image_bytes == pkg.media[zip_image_path]
                    ext == Extension(zip_image_path)
                    file_stem == FileStem(display_name, name, row_idx)
                    output_path == ensure_headshot_path(file_stem, ext)
                IN  IF image_bytes = None
                    THEN /\ Raise(KeyError(<<zip_image_path.stem, zip_image_path.suffix>>))
                         /\ UNCHANGED <<ri, candidates, files, written>>
                    ELSE /\ files' = Put(files, output_path, Get(image_bytes))
                         /\ written' = Append(written,
                                [path |-> output_path, image |-> zip_image_path,
                                 sheet |-> si, row |-> ri])
                         /\ candidates' = Append(candidates,
                                [name |-> name, statement |-> statement,
                                 headshot |-> Some(output_path)])
                         /\ ri' = ri + 1
                         /\ UNCHANGED <<pc, zip_open, error>>
    /\ UNCHANGED <<pkg, shared_strings, sheet_targets, si, drawing_path, rel_map,
                   ai, row_image_map, rows, positions, data_file>>

\* main, lines 199-206: the sheet's Position.
AppendPosition ==
    /\ pc = "row"
    /\ ri > Len(rows)
    /\ positions' = Append(positions,
            [title |-> display_name, slug |-> slugify(display_name),
             sheet |-> sheet_name, candidates |-> candidates])
    /\ si' = si + 1
    /\ pc' = "sheet"
    /\ UNCHANGED <<pkg, zip_open, shared_strings, sheet_targets, drawing_path,
                   rel_map, ai, row_image_map, rows, ri, candidates, files, written,
                   data_file, error>>

\* main, line 154: the with statement ends after the last sheet.
ClosePackage ==
    /\ pc = "sheet"
    /\ si > Len(sheet_targets)
    /\ zip_open' = FALSE
    /\ pc' = "write"
    /\ UNCHANGED <<pkg, shared_strings, sheet_targets, si, drawing_path, rel_map,
                   ai, row_image_map, rows, ri, candidates, positions, files,
                   written, data_file, error>>

\* main, lines 208-211
WriteData ==
    /\ pc = "write"
    /\ data_file' = Some(JsonDump(positions))
    /\ pc' = "done"
    /\ UNCHANGED <<pkg, zip_open, shared_strings, sheet_targets, si, drawing_path,
                   rel_map, ai, row_image_map, rows, ri, candidates, positions,
                   files, written, error>>

Next ==
    \/ MissingSpreadsheet
    \/ OpenPackage
    \/ LoadSheetTargets
    \/ FindDrawingPath
    \/ LoadDrawingRels
    \/ MapAnchorStep
    \/ ReadSheetRows
    \/ BuildCandidate
    \/ AppendPosition
    \/ ClosePackage
    \/ WriteData


(***************************************************************************)
(* Packages: the inputs of a run                                            *)
(***************************************************************************)
MaxSheets == 2     \* sheets declared by a workbook
MaxRows == 2       \* data rows of a sheet (rows after the header)
MaxRowIdx == 3     \* largest row index a row or an anchor declares
MaxAnchors == 2    \* anchors of a drawing

SheetPaths == <<"xl/worksheets/sheet1.xml", "xl/worksheets/sheet2.xml",
                "xl/worksheets/sheet3.xml", "xl/worksheets/sheet4.xml">>
DrawingPaths == <<"xl/drawings/drawing1.xml", "xl/drawings/drawing2.xml",
                  "xl/drawings/drawing3.xml", "xl/drawings/drawing4.xml">>
RelIds == <<"rId1", "rId2", "rId3", "rId4">>

Image1 == [stem |-> "xl/media/image1", suffix |-> ".png"]
Image2 == [stem |-> "xl/media/image2", suffix |-> ".png"]
Image3 == [stem |-> "xl/media/image3", suffix |-> ""]
Image4 == [stem |-> "xl/media/image4", suffix |-> ".png"]
ImageList == <<Image1, Image2, Image3, Image4>>

\* xl/media: image4 is the target of relationships but not in the package.
Media ==
    [img \in Range(ImageList) |->
        IF img = Image4 THEN None ELSE Some(<<"bytes of", img.stem>>)]

Al == <<"A", "l">>
Bo == <<"B", "o">>
Pres == <<"P", "r", "e", "s">>
VoteForMe == <<"V", "o", "t", "e">>

\* <c r="A2" t="str"><v>text</v></c>, <c r="A2" t="s"><v>index</v></c> and
\* <c r="A2"/>
Inline(col, text) == [col |-> col, t |-> "str", v |-> Some(text)]
Shared(col, index) == [col |-> col, t |-> "s", v |-> Some(index)]
Valueless(col) == [col |-> col, t |-> "", v |-> None]

Row(r, cells) == [r |-> r, cells |-> cells]
HeaderRow ==
    Row(Some(1), <<Inline("A", <<"N", "a", "m", "e">>),
                   Inline("C", <<"S", "t", "a", "t", "e", "m", "e", "n", "t">>)>>)

PictureAnchor(row, embed) ==
    [from |-> Some(row), pic |-> TRUE, blip |-> TRUE, embed |-> Some(embed)]

\* xl/sharedStrings.xml: "Al", "Bo" in two text runs, and a blank entry.
DefaultSst == Some(<< <<Al>>, << <<"B">>, <<"o">> >>, << <<" ">> >> >>)

\* A package of n sheets: sheet i is declared with name names[i] and
\* relationship id rids[i], the workbook relationships map RelIds[i] to
\* SheetPaths[i], and sheet i's drawing, if any, is DrawingPaths[i].
Package(sst, names, rids, parts, drawings) ==
    [exists |-> TRUE,
     sst |-> sst,
     wbRels |-> Some([id \in {RelIds[i] : i \in 1..Len(names)} |->
                        SheetPaths[CHOOSE i \in 1..Len(names) : RelIds[i] = id]]),
     workbook |-> [i \in 1..Len(names) |-> [name |-> names[i], rid |-> rids[i]]],
     parts |-> [p \in Range(SheetPaths) |->
                  IF \E i \in 1..Len(parts) : SheetPaths[i] = p
                  THEN parts[CHOOSE i \in 1..Len(parts) : SheetPaths[i] = p]
                  ELSE None],
     drawings |-> [d \in Range(DrawingPaths) |->
                     IF \E i \in 1..Len(drawings) : DrawingPaths[i] = d
                     THEN drawings[CHOOSE i \in 1..Len(drawings) : DrawingPaths[i] = d]
                     ELSE None],
     media |-> Media]

DrawingRel(i) == <<[type |-> "drawing", target |-> DrawingPaths[i]]>>
SheetPart(rs, rels) == Some([rows |-> rs, rels |-> rels])
DrawingPart(rels, anchor_list) == Some([rels |-> rels, anchors |-> anchor_list])

OneSheet(name, rs, anchor_list, rels) ==
    Package(DefaultSst, <<name>>, <<RelIds[1]>>,
            <<SheetPart(rs, Some(DrawingRel(1)))>>,
            <<DrawingPart(Some(rels), anchor_list)>>)

SeqsUpTo(S, n) == UNION {[1..k -> S] : k \in 0..n}

\* 1. Texts: a header and up to MaxRows data rows at consecutive indices,
\*    each with its own picture.  The first data row takes any name cell or
\*    any statement cell; the rows after it take a name that is blank or
\*    slugifies to "al".
NameCells ==
    { <<Inline("A", Al)>>, <<Inline("A", <<"a", "l">>)>>,
      <<Inline("A", <<" ", "A", "l", "\t">>)>>, <<Inline("A", <<"A", "\t", "l">>)>>,
      <<Inline("A", << >>)>>, <<Inline("A", <<" ", "\t">>)>>, <<Inline("A", <<"-">>)>>,
      <<Valueless("A")>>, << >>, <<Shared("A", <<"1">>)>>, <<Shared("A", <<"2">>)>> }
StatementCells ==
    { <<Inline("C", VoteForMe)>>, <<Inline("C", <<"a", "\t", "b">>)>>,
      <<Inline("C", <<" ", "a", "\n">>)>>, <<Inline("C", <<"\t">>)>>,
      <<Inline("C", << >>)>>, <<Valueless("C")>>, << >>, <<Shared("C", <<"0">>)>> }
TextCells ==
    {a \o <<Inline("C", VoteForMe)>> : a \in NameCells}
    \cup {<<Inline("A", Al)>> \o c : c \in StatementCells}
LaterCells ==
    { <<Inline("A", Al), Inline("C", VoteForMe)>>,
      <<Inline("A", <<"a", "l", " ">>)>>,
      <<Inline("A", <<" ">>), Inline("C", VoteForMe)>> }

TextPackages ==
    { OneSheet(Pres,
               <<HeaderRow>> \o [i \in 1..Len(cs) |-> Row(Some(i + 1), cs[i])],
               [i \in 1..Len(cs) |-> PictureAnchor(i, RelIds[i])],
               [id \in Range(RelIds) |->
                   ImageList[CHOOSE i \in 1..4 : RelIds[i] = id]])
      : cs \in { <<first>> \o rest : first \in TextCells,
                                      rest \in SeqsUpTo(LaterCells, MaxRows - 1) } }

\* 2. Rows: up to MaxRows + 1 rows whose indices need be neither increasing
\*    nor distinct; the row at position i is named RowNames[i] or is blank.
\*    Pictures are anchored to the rows of index 2 and 3.
RowNames == <<<<"H", "d">>, Al, Bo, <<"C", "y">>, <<"D", "i">>, <<"E", "d">>>>
RowSeqs ==
    UNION { { [i \in 1..n |->
                 Row(Some(idx[i]),
                     <<Inline("A", IF blank[i] THEN <<" ">> ELSE RowNames[i]),
                       Inline("C", VoteForMe)>>)]
              : idx \in [1..n -> 1..MaxRowIdx], blank \in [1..n -> BOOLEAN] }
            : n \in 0..(MaxRows + 1) }

RowPackages ==
    { OneSheet(Pres, rs,
               <<PictureAnchor(1, RelIds[1]), PictureAnchor(2, RelIds[2])>>,
               [id \in {RelIds[1], RelIds[2]} |->
                   IF id = RelIds[1] THEN Image1 ELSE Image2])
      : rs \in RowSeqs }

\* 3. Anchors: up to MaxAnchors anchors over the rows 1 (header), 2 and 3:
\*    pictures that resolve (rId1, rId2) at each row, and at row 2 the
\*    anchors the loop passes over.
AnchorChoices ==
    { PictureAnchor(k, id) : k \in 0..2, id \in {RelIds[1], RelIds[2]} }
    \cup { [from |-> None, pic |-> TRUE, blip |-> TRUE, embed |-> Some(RelIds[1])],
           [from |-> Some(1), pic |-> FALSE, blip |-> FALSE, embed |-> None],
           [from |-> Some(1), pic |-> TRUE, blip |-> FALSE, embed |-> None],
           [from |-> Some(1), pic |-> TRUE, blip |-> TRUE, embed |-> None],
           [from |-> Some(1), pic |-> TRUE, blip |-> TRUE, embed |-> Some(RelIds[4])] }

AnchorPackages ==
    { OneSheet(OverrideKey2,
               <<HeaderRow,
                 Row(Some(2), <<Inline("A", Al), Inline("C", VoteForMe)>>),
                 Row(Some(3), <<Inline("A", Bo)>>)>>,
               as,
               [id \in {RelIds[1], RelIds[2]} |->
                   IF id = RelIds[1] THEN Image1 ELSE Image3])
      : as \in SeqsUpTo(AnchorChoices, MaxAnchors) }

\* 4. Structure: up to MaxSheets sheets, each of one of the kinds below.
SheetNames == <<<<"a", " ", "b">>, <<"a", "-", "b">>, Pres, OverrideKey1>>

AlRow == Row(Some(2), <<Inline("A", Al), Inline("C", VoteForMe)>>)
SharedRow(r, index) == Row(r, <<Shared("A", index), Inline("C", VoteForMe)>>)
OneImage(img) == [id \in {RelIds[1]} |-> img]
OnePicture == <<PictureAnchor(1, RelIds[1])>>

\* [resolved: the sheet's rId is in the workbook relationships,
\*  rows: the sheet part's rows, or None for a part not in the package,
\*  rels: the sheet's relationship file, "drawing" naming its drawing,
\*  drawing: the drawing part]
SheetKinds ==
    { [resolved |-> FALSE, rows |-> Some(<<HeaderRow, AlRow>>), rels |-> "absent",
       drawing |-> None],
      [resolved |-> TRUE, rows |-> None, rels |-> "absent", drawing |-> None],
      \* no rows; a header only; a header and a row without a name
      [resolved |-> TRUE, rows |-> Some(<< >>), rels |-> "absent", drawing |-> None],
      [resolved |-> TRUE, rows |-> Some(<<HeaderRow>>), rels |-> "absent",
       drawing |-> None],
      [resolved |-> TRUE,
       rows |-> Some(<<HeaderRow, Row(Some(2), <<Inline("A", <<" ">>)>>)>>),
       rels |-> "hyperlink", drawing |-> None],
      \* a candidate with a picture
      [resolved |-> TRUE, rows |-> Some(<<HeaderRow, AlRow>>), rels |-> "drawing",
       drawing |-> DrawingPart(Some(OneImage(Image1)), OnePicture)],
      \* the picture's image, the drawing's relationship file or the drawing
      \* itself is not in the package
      [resolved |-> TRUE, rows |-> Some(<<HeaderRow, AlRow>>), rels |-> "drawing",
       drawing |-> DrawingPart(Some(OneImage(Image4)), OnePicture)],
      [resolved |-> TRUE, rows |-> Some(<<HeaderRow, AlRow>>), rels |-> "drawing",
       drawing |-> DrawingPart(None, OnePicture)],
      [resolved |-> TRUE, rows |-> Some(<<HeaderRow, AlRow>>), rels |-> "drawing",
       drawing |-> None],
      \* shared-string cells: a valid index, a negative one, one past the
      \* table, and no number at all
      [resolved |-> TRUE, rows |-> Some(<<HeaderRow, SharedRow(None, <<"0">>)>>),
       rels |-> "absent", drawing |-> None],
      [resolved |-> TRUE, rows |-> Some(<<HeaderRow, SharedRow(Some(2), <<"-", "1">>)>>),
       rels |-> "absent", drawing |-> None],
      [resolved |-> TRUE, rows |-> Some(<<HeaderRow, SharedRow(Some(2), <<"3">>)>>),
       rels |-> "absent", drawing |-> None],
      [resolved |-> TRUE, rows |-> Some(<<HeaderRow, SharedRow(Some(2), <<"x">>)>>),
       rels |-> "absent", drawing |-> None] }

SheetRels(kind, i) ==
    IF kind.rels = "absent" THEN None
    ELSE IF kind.rels = "drawing" THEN Some(DrawingRel(i))
    ELSE Some(<<[type |-> "hyperlink", target |-> "http://example.org"]>>)

Structured(sst, ks) ==
    Package(sst,
            [i \in 1..Len(ks) |-> SheetNames[i]],
            [i \in 1..Len(ks) |-> IF ks[i].resolved THEN RelIds[i] ELSE "rId9"],
            [i \in 1..Len(ks) |->
                IF ks[i].rows = None THEN None
                ELSE SheetPart(Get(ks[i].rows), SheetRels(ks[i], i))],
            [i \in 1..Len(ks) |-> ks[i].drawing])

StructPackages ==
    { Structured(DefaultSst, ks) : ks \in SeqsUpTo(SheetKinds, MaxSheets) }

\* 5. The shared-string document is absent or empty.
SstPackages ==
    { Structured(sst, <<k>>) : sst \in {None, Some(<< >>)}, k \in SheetKinds }

PlainPackage == OneSheet(Pres, <<HeaderRow, AlRow>>, << >>, OneImage(Image1))

\* 6. No spreadsheet at all, and a package without workbook relationships.
BrokenPackages ==
    { [PlainPackage EXCEPT !.exists = FALSE],
      [PlainPackage EXCEPT !.wbRels = None] }

Packages ==
    TextPackages \cup RowPackages \cup AnchorPackages \cup StructPackages
    \cup SstPackages \cup BrokenPackages

\* What an earlier run left at DATA_PATH.
StaleData == [positions |-> <<[title |-> JsonString(<<"O", "l", "d">>)]>>]

Init ==
    /\ pkg \in Packages
    /\ pc = "start"
    /\ zip_open = FALSE
    /\ shared_strings = << >>
    /\ sheet_targets = << >>
    /\ si = 0
    /\ drawing_path = None
    /\ rel_map = EmptyMap
    /\ ai = 0
    /\ row_image_map = EmptyMap
    /\ rows = << >>
    /\ ri = 0
    /\ candidates = << >>
    /\ positions = << >>
    /\ files = EmptyMap
    /\ written = << >>
    /\ data_file \in {None, Some(StaleData)}
    /\ error = NoError

Spec == Init /\ [][Next]_vars


(***************************************************************************)
(* Properties                                                              *)
(***************************************************************************)
IsBlank(t) == \A i \in 1..Len(t) : t[i] \in Whitespace

Max(S) == CHOOSE m \in S : \A n \in S : n <= m

\* The row loop is about to handle rows[ri].
AtRow == pc = "row" /\ ri <= Len(rows)

\* The step appends a candidate.
CandidateAdded ==
    /\ Len(candidates') = Len(candidates) + 1
    /\ SubSeq(candidates', 1, Len(candidates)) = candidates

AllCandidates(ps) ==
    UNION {Range(ps[j].candidates) : j \in 1..Len(ps)}

\* C1: no candidate has an empty name: a data row whose name cell is absent,
\* empty or whitespace-only adds no candidate, and a data row with a name and
\* an absent or blank statement cell adds a candidate of statement "".
C1_BlankNamesDropped ==
    [][ /\ AtRow =>
            LET cells == rows[ri].cells
                noName == "A" \notin DOMAIN cells \/ IsBlank(cells["A"])
                noStatement == "C" \notin DOMAIN cells \/ IsBlank(cells["C"])
            IN  /\ noName => candidates' = candidates /\ pc' = "row"
                /\ ~noName /\ pc' # "failed" =>
                      /\ CandidateAdded
                      /\ noStatement => Last(candidates').statement = << >>
        /\ \A c \in Range(candidates') \cup AllCandidates(positions') :
              c.name # << >>
      ]_vars

\* A sheet was read through in which a row without a name was passed over
\* and a candidate without a statement was built.
C1_Witness ==
    /\ pc = "row"
    /\ ri = Len(rows) + 1
    /\ \E i \in 2..Len(rows) : IsBlank(CellText(rows[i].cells, "A"))
    /\ \E i \in 2..Len(rows) :
          /\ ~IsBlank(CellText(rows[i].cells, "A"))
          /\ "C" \notin DOMAIN rows[i].cells
    /\ Len(candidates) = 1
    /\ candidates[1].statement = << >>

\* The rows of the sheet document declared under a name.
DocRowsOf(name) ==
    LET sheet == pkg.workbook[CHOOSE i \in 1..Len(pkg.workbook) :
                                 pkg.workbook[i].name = name]
    IN  Get(pkg.parts[Get(pkg.wbRels)[sheet.rid]]).rows

\* The text of a row's cell in the sheet document, shared strings looked up.
DocCellText(row, col) ==
    LET hits == {i \in 1..Len(row.cells) :
                    row.cells[i].col = col /\ row.cells[i].v # None}
    IN  IF hits = {} THEN << >>
        ELSE LET cell == row.cells[Max(hits)]
             IN  IF cell.t = "s"
                 THEN ListItem(load_shared_strings(pkg),
                               Get(ParseInt(Get(cell.v)))).text
                 ELSE Get(cell.v)

\* The names of the rows with a name, in the order of the document.
NamesInOrder(doc_rows) ==
    SelectSeq([i \in 1..Len(doc_rows) |-> Strip(DocCellText(doc_rows[i], "A"))],
              LAMBDA name : name # << >>)

CandidateNames(cs) == [k \in 1..Len(cs) |-> cs[k].name]

\* C2: the candidates of a position are the sheet's data rows with a name,
\* in document order, whatever the row indices.
C2_DocumentOrder ==
    /\ \A j \in 1..Len(positions) :
          CandidateNames(positions[j].candidates)
            = NamesInOrder(Tail(DocRowsOf(positions[j].sheet)))
    /\ pc = "row" =>
          CandidateNames(candidates)
            = NamesInOrder(SubSeq(DocRowsOf(sheet_name), 2, ri - 1))

\* A position was emitted for a sheet whose two named data rows come with
\* decreasing row indices.
C2_Witness ==
    /\ pc = "done"
    /\ Len(positions) = 1
    /\ Len(rows) = 3
    /\ rows[2].idx > rows[3].idx
    /\ Len(positions[1].candidates) = 2

\* C10: the data file is written only once every sheet has been extracted
\* without an error; a run that ends for a missing spreadsheet or by an
\* exception leaves the data file as it was; the package is closed whenever
\* the run has ended.
C10_CompletesOrAborts ==
    [][ /\ data_file' # data_file =>
              /\ pc = "write" /\ pc' = "done"
              /\ si > Len(sheet_targets)
              /\ error = NoError
              /\ data_file' = Some(JsonDump(positions))
        /\ pc' \in {"failed", "missing"} => data_file' = data_file
        /\ pc' \in {"failed", "missing", "write", "done"} => ~zip_open'
      ]_vars

\* A run was ended by an exception after a position had been built, with an
\* earlier data file in place.
C10_Witness ==
    /\ pc = "failed"
    /\ positions # << >>
    /\ written # << >>
    /\ data_file = Some(StaleData)
    /\ ~zip_open


\* The anchors and the relationships of the current sheet's drawing.
CurrentAnchors ==
    IF drawing_path = None THEN << >>
    ELSE Get(pkg.drawings[Get(drawing_path)]).anchors

CurrentDrawingRels ==
    IF drawing_path = None THEN EmptyMap
    ELSE Get(Get(pkg.drawings[Get(drawing_path)]).rels)

\* A picture anchor with a 'from' position whose embed id resolves.
Resolves(anchor, rels) ==
    /\ anchor.from # None
    /\ anchor.pic
    /\ anchor.blip
    /\ anchor.embed # None
    /\ Get(anchor.embed) \in DOMAIN rels

ImageOf(anchor, rels) == rels[Get(anchor.embed)]

\* The resolving anchors of the current drawing that declare the zero-based
\* row k with k + 1 = row_idx.
AnchorsAt(row_idx) ==
    {i \in 1..Len(CurrentAnchors) :
        /\ Resolves(CurrentAnchors[i], CurrentDrawingRels)
        /\ Get(CurrentAnchors[i].from) + 1 = row_idx}

\* The candidate the step adds has the bytes of this image as its headshot.
Attached(image) ==
    LET headshot == Last(candidates').headshot
    IN  /\ headshot # None
        /\ Get(headshot) \in DOMAIN files'
        /\ Some(files'[Get(headshot)]) = pkg.media[image]

\* C3 as claimed: the image of every resolving anchor at zero-based row k is
\* attached to the candidate built from the row of index k + 1, and a
\* candidate gets an image only from an anchor at its row.
C3_EveryAnchorAttached ==
    [][ AtRow /\ CandidateAdded =>
          /\ \A i \in AnchorsAt(rows[ri].idx) :
                Attached(ImageOf(CurrentAnchors[i], CurrentDrawingRels))
          /\ Last(candidates').headshot # None =>
                \E i \in AnchorsAt(rows[ri].idx) :
                    Attached(ImageOf(CurrentAnchors[i], CurrentDrawingRels))
      ]_vars

\* C3 as amended: the candidate built from the row of index r has the image
\* of the last resolving anchor at zero-based row r - 1, and no headshot if
\* there is no such anchor.
C3_LastAnchorAtRowAttached ==
    [][ AtRow /\ CandidateAdded =>
          LET hits == AnchorsAt(rows[ri].idx)
          IN  /\ hits = {} => Last(candidates').headshot = None
              /\ hits # {} =>
                    Attached(ImageOf(CurrentAnchors[Max(hits)], CurrentDrawingRels))
      ]_vars

\* The candidate of the row of index 3 was given the image of an anchor at
\* zero-based row 2 that follows an anchor of another image at that row.
C3_Witness ==
    /\ pc = "row"
    /\ \E k \in 1..Len(written) :
          /\ written[k].sheet = si
          /\ rows[written[k].row].idx = 3
          /\ \E i, j \in AnchorsAt(3) :
                /\ i < j
                /\ CurrentAnchors[j].from = Some(2)
                /\ ImageOf(CurrentAnchors[j], CurrentDrawingRels) = written[k].image
                /\ ImageOf(CurrentAnchors[i], CurrentDrawingRels) # written[k].image

\* The declared sheets whose relationship id resolves to a sheet document
\* with a row after the header row.
HasDataRow(sheet) ==
    /\ pkg.wbRels # None
    /\ sheet.rid \in DOMAIN Get(pkg.wbRels)
    /\ pkg.parts[Get(pkg.wbRels)[sheet.rid]] # None
    /\ Len(Get(pkg.parts[Get(pkg.wbRels)[sheet.rid]]).rows) >= 2

SheetNamesOf(sheets) == [i \in 1..Len(sheets) |-> sheets[i].name]

\* C4: a completed run has one position per sheet with a data row, in the
\* declared order, and none for a sheet without rows or with a header only.
C4_OnePositionPerSheetWithData ==
    pc = "done" =>
        [j \in 1..Len(positions) |-> positions[j].sheet]
          = SheetNamesOf(SelectSeq(pkg.workbook, HasDataRow))

\* C5: an absent relationship file ends no run: without the workbook's the
\* run goes on with no sheets, a sheet without one has no drawing, and a
\* drawing without one has no anchored images.
C5_AbsentRelsTolerated ==
    /\ pc = "failed" /\ error.exc = "KeyError" => Head(error.arg) # "_rels"
    /\ pc \in {"drawing_rels", "anchor"} => Get(pkg.parts[sheet_path]).rels # None
    /\ pc \in {"read_rows", "row"} /\ drawing_path # None
         /\ pkg.drawings[Get(drawing_path)] # None
         /\ Get(pkg.drawings[Get(drawing_path)]).rels = None
         => row_image_map = EmptyMap

\* C6: once a sheet's rows have been read, every shared-string cell of the
\* sheet holds a valid position of the shared-string table.
C6_BadSharedIndexIsFatal ==
    pc = "row" =>
        \A row \in Range(Get(pkg.parts[sheet_path]).rows) :
            \A cell \in Range(row.cells) :
                cell.t = "s" /\ cell.v # None /\ cell.col # "" =>
                    /\ ParseInt(Get(cell.v)) # None
                    /\ 0 <= Get(ParseInt(Get(cell.v)))
                    /\ Get(ParseInt(Get(cell.v))) < Len(shared_strings)


\* json.loads of a string written by json.dumps.
RECURSIVE JsonUnescape(_)
JsonUnescape(t) ==
    IF t = << >> THEN << >>
    ELSE IF Head(t) = "\\" /\ Len(t) >= 2
    THEN <<CASE t[2] = "t" -> "\t"
             [] t[2] = "n" -> "\n"
             [] t[2] = "r" -> "\r"
             [] OTHER -> t[2]>> \o JsonUnescape(SubSeq(t, 3, Len(t)))
    ELSE <<Head(t)>> \o JsonUnescape(Tail(t))

JsonDecode(j) == JsonUnescape(SubSeq(j, 2, Len(j) - 1))

\* The written data file holds, string for string, the names and the
\* statements of the positions' candidates.
SerializedExactly ==
    LET doc == Get(data_file')
    IN  /\ Len(doc.positions) = Len(positions)
        /\ \A j \in 1..Len(positions) :
              /\ Len(doc.positions[j].candidates) = Len(positions[j].candidates)
              /\ \A k \in 1..Len(positions[j].candidates) :
                    /\ JsonDecode(doc.positions[j].candidates[k].name)
                         = positions[j].candidates[k].name
                    /\ JsonDecode(doc.positions[j].candidates[k].statement)
                         = positions[j].candidates[k].statement

\* t is s without its leading and its trailing whitespace.
IsTrimOf(t, s) ==
    \E i \in 0..Len(s) : \E j \in i..Len(s) :
        /\ t = SubSeq(s, i + 1, j)
        /\ IsBlank(SubSeq(s, 1, i))
        /\ IsBlank(SubSeq(s, j + 1, Len(s)))
        /\ t # << >> => t[1] \notin Whitespace /\ Last(t) \notin Whitespace

\* C7 as claimed: a candidate's name and statement are the texts of the
\* row's name and statement cells, character for character, and are
\* serialized unaltered.
C7_TextUnaltered ==
    [][ /\ AtRow /\ CandidateAdded =>
              /\ Last(candidates').name = CellText(rows[ri].cells, "A")
              /\ Last(candidates').statement = CellText(rows[ri].cells, "C")
        /\ pc = "write" => SerializedExactly
      ]_vars

\* C7 as amended: the name is the name cell's text without its leading and
\* trailing whitespace, the statement is the statement cell's text with each
\* tab replaced by a space and then without its leading and trailing
\* whitespace, and both are serialized unaltered.
C7_TextTrimmed ==
    [][ /\ AtRow /\ CandidateAdded =>
              /\ IsTrimOf(Last(candidates').name, CellText(rows[ri].cells, "A"))
              /\ IsTrimOf(Last(candidates').statement,
                          [i \in 1..Len(CellText(rows[ri].cells, "C")) |->
                              IF CellText(rows[ri].cells, "C")[i] = "\t" THEN " "
                              ELSE CellText(rows[ri].cells, "C")[i]])
        /\ pc = "write" => SerializedExactly
      ]_vars

\* The data file was written with a candidate whose statement cell holds a
\* tab between two letters.
C7_Witness ==
    /\ pc = "done"
    /\ Len(rows) >= 2
    /\ CellText(rows[2].cells, "C") = <<"a", "\t", "b">>
    /\ Len(positions) = 1
    /\ positions[1].candidates[1].statement = <<"a", " ", "b">>
    /\ Get(data_file).positions[1].candidates[1].statement
         = <<"\"", "a", " ", "b", "\"">>

\* The row -> image map of a sequence of anchors: each row a resolving
\* anchor declares, with the image of the last such anchor.
LastWins(as, rels) ==
    LET hits(r) == {i \in 1..Len(as) :
                       Resolves(as[i], rels) /\ Get(as[i].from) + 1 = r}
    IN  [r \in {Get(as[i].from) + 1 :
                  i \in {n \in 1..Len(as) : Resolves(as[n], rels)}} |->
            ImageOf(as[Max(hits(r))], rels)]

\* C8: the anchor map holds one image per row, that of the last resolving
\* anchor at the row; an anchor without a 'from' position, without a picture
\* or with an embed id that does not resolve changes nothing and ends no run.
C8_LastAnchorWins ==
    [][ pc = "anchor" =>
          /\ pc' # "failed"
          /\ row_image_map'
               = LastWins(SubSeq(CurrentAnchors, 1, ai), CurrentDrawingRels)
          /\ ~Resolves(CurrentAnchors[ai], CurrentDrawingRels) =>
                row_image_map' = row_image_map
      ]_vars

\* Two anchors of different images at one row were mapped, and the map
\* holds the second's image.
C8_Witness ==
    /\ pc = "read_rows"
    /\ Len(CurrentAnchors) = 2
    /\ Resolves(CurrentAnchors[1], CurrentDrawingRels)
    /\ Resolves(CurrentAnchors[2], CurrentDrawingRels)
    /\ CurrentAnchors[1].from = CurrentAnchors[2].from
    /\ ImageOf(CurrentAnchors[1], CurrentDrawingRels)
         # ImageOf(CurrentAnchors[2], CurrentDrawingRels)
    /\ row_image_map[Get(CurrentAnchors[2].from) + 1]
         = ImageOf(CurrentAnchors[2], CurrentDrawingRels)

\* C9: after a completed run every headshot written for a candidate is at a
\* path of its own and holds the bytes of the image anchored to the
\* candidate's row.
C9_OneFilePerHeadshot ==
    pc = "done" =>
        /\ \A k \in 1..Len(written) :
              Some(files[written[k].path]) = pkg.media[written[k].image]
        /\ \A k, l \in 1..Len(written) :
              k # l => written[k].path # written[l].path

=============================================================================
